---- MODULE Spec2Model ----
(***************************************************************************)
(* A model of the section engine of obsidianmd: src/src/section.rs         *)
(* (Section::find_subsection, subsection, body, append, trim_end), the     *)
(* Note wrappers of src/src/note.rs and the ToMarkdown renderers of        *)
(* src/src/markdown.rs.                                                    *)
(*                                                                         *)
(* The rope is a sequence of one-character strings.  Offsets are 0-based   *)
(* as in the code: offset i lies before the character r[i + 1].  All       *)
(* characters of the model are ASCII, so a codepoint is one offset wide.   *)
(***************************************************************************)
EXTENDS Integers, Sequences, FiniteSets, TLC

\* ------------------------------------------------------------------ bounds

\* The most characters a note holds when it is opened.
MaxDocLen == 13

\* The most edits (append, trim_end) made through Section values.
MaxEdits == 2

\* The most calls made through the Note interface.
MaxNoteCalls == 1

\* ------------------------------------------------------------- characters

LF == "\n"

\* char::is_whitespace, on the characters of the model.
IsWhitespace(c) == c \in {" ", LF}

\* Case folding of the regex's case_insensitive(true).
Lower(c) == IF c = "A" THEN "a" ELSE IF c = "B" THEN "b" ELSE c

None == << >>
Some(x) == << x >>

MinOf(a, b) == IF a <= b THEN a ELSE b
MaxOf(a, b) == IF a >= b THEN a ELSE b

\* ------------------------------------------------------------ the inputs

\* The lines a note is made of: headings of three depths (one of them in
\* upper case) and a text line that ends in a space.
LineSet ==
    { << "#", " ", "a" >>,
      << "#", "#", " ", "A" >>,
      << "#", "#", "#", " ", "b" >>,
      << "x", " " >> }

\* The texts of exactly n characters made of whole lines of LineSet, each
\* ended by its line break.
RECURSIVE WholeLines(_)
WholeLines(n) ==
    IF n = 0 THEN { << >> }
    ELSE UNION { { d \o l \o << LF >> : d \in WholeLines(n - Len(l) - 1) } :
                   l \in { x \in LineSet : Len(x) + 1 <= n } }

\* Every file content of at most MaxDocLen characters: whole lines, with or
\* without a last line that has no line break.
Docs ==
    UNION { WholeLines(n) \cup
            UNION { { d \o l : d \in WholeLines(n - Len(l)) } :
                      l \in { x \in LineSet : Len(x) >= 1 /\ Len(x) <= n } } :
            n \in 0..MaxDocLen }

\* The section names asked for; "B" matches the heading "b" by case folding.
Names == { << "a" >>, << "B" >> }
OptNames == { None } \cup { Some(n) : n \in Names }

\* ------------------------------------------------------------- markdown

Str(t) == [kind |-> "str", checked |-> FALSE, text |-> t]
CheckListItem(c, t) == [kind |-> "checklist", checked |-> c, text |-> t]
LocalLink(t) == [kind |-> "link", checked |-> FALSE, text |-> t]

\* The values appended: a text that is one space, a checklist item as
\* CheckListItem::new makes it, and a link.
Payloads ==
    { Str(<< " " >>), CheckListItem(FALSE, << "x" >>), LocalLink(<< "x" >>) }

ToMarkdown(d) ==
    CASE d.kind = "str" -> d.text
      [] d.kind = "checklist" ->
           IF d.checked
           THEN << "-", " ", "[", "x", "]", " " >> \o d.text \o << LF >>
           ELSE << "-", " ", "[", " ", "]", " " >> \o d.text \o << LF >>
      [] d.kind = "link" -> << "[", "[" >> \o d.text \o << "]", "]" >>

\* ---------------------------------------------------------------- rope

\* Interval::prefix, Interval::suffix and Node::edit of the rope library, as
\* Section calls them: the text before iv.start, the new text, the text from
\* iv.end on.  A range whose start lies after its end is not rejected: the
\* prefix then ends after the suffix begins, and the text between is kept
\* twice.
Edit(r, ivStart, ivEnd, new) ==
    SubSeq(r, 1, MinOf(Len(r), ivStart))
        \o new
        \o SubSeq(r, MaxOf(0, ivEnd) + 1, MaxOf(Len(r), ivEnd))

\* Node::slice(interval).to_string(); an interval with end <= start is empty.
Slice(r, ivStart, ivEnd) == SubSeq(r, ivStart + 1, ivEnd)

\* The offset just after the raw line (LinesRaw) that starts at pos: after
\* its line break, or the end of the rope.
RECURSIVE LineEnd(_, _)
LineEnd(r, pos) ==
    IF pos >= Len(r) THEN Len(r)
    ELSE IF r[pos + 1] = LF THEN pos + 1
    ELSE LineEnd(r, pos + 1)

RawLine(r, pos) == SubSeq(r, pos + 1, LineEnd(r, pos))

\* The length of the run of "#" a text starts with.
RECURSIVE LeadingHashes(_)
LeadingHashes(s) ==
    IF s = << >> \/ Head(s) # "#" THEN 0 ELSE 1 + LeadingHashes(Tail(s))

\* Where "$" of a multi_line regex matches in a raw line: before its line
\* break, or at its end.
BeforeLineBreak(text) ==
    IF text # << >> /\ text[Len(text)] = LF
    THEN SubSeq(text, 1, Len(text) - 1)
    ELSE text

\* ------------------------------------------------------------- section

Section(weight, start, end) == [weight |-> weight, start |-> start, end |-> end]

\* Section::new(0, .., rope)
RootSection(r) == Section(0, 0, Len(r))

\* Section::body
Body(r, s) == Slice(r, s.start, s.end)

\* Mutant of MinMarkers: the pattern asks for self.weight markers, so a
\* heading of the parent's own depth matches.
MinMarkersSameLevel(weight) == weight

\* The least marker count of the header pattern: self.weight + 1.
MinMarkers(weight) == weight + 1

\* Mutant of HeaderPatternMatch: the pattern holds .* in place of the name.
HeaderPatternAnyText(text, min, name) ==
    LET t == BeforeLineBreak(text)
        k == LeadingHashes(t)
    IN  IF k >= min /\ Len(t) >= k + 1 /\ t[k + 1] = " " THEN Len(t) ELSE -1

\* The header pattern ^#{min,} name$ (case-insensitive, multi-line) on one
\* raw line: the offset in the line where the match ends, or -1.
HeaderPatternMatch(text, min, name) ==
    LET t == BeforeLineBreak(text)
        k == LeadingHashes(t)
    IN  IF /\ k >= min
           /\ Len(t) = k + 1 + Len(name)
           /\ t[k + 1] = " "
           /\ \A i \in 1..Len(name) : Lower(t[k + 1 + i]) = Lower(name[i])
        THEN Len(t)
        ELSE -1

\* The next-section pattern ^#{1,max} .*$ (multi-line) on one raw line.
NextHeaderPatternMatch(text, max) ==
    LET t == BeforeLineBreak(text)
        k == LeadingHashes(t)
    IN  IF k >= 1 /\ k <= max /\ Len(t) >= k + 1 /\ t[k + 1] = " "
        THEN Len(t)
        ELSE -1

\* xi_rope::find::find with a regex, the cursor and the line iterator both at
\* pos: the pattern is tried on one raw line after the other; a match leaves
\* the cursor at its end and returns where the line starts.
RECURSIVE FindHeader(_, _, _, _)
FindHeader(r, pos, min, name) ==
    IF pos = Len(r) THEN [found |-> FALSE, start |-> 0, cursor |-> pos]
    ELSE LET text == RawLine(r, pos)
             m == HeaderPatternMatch(text, min, name)
         IN  IF m >= 0
             THEN [found |-> TRUE, start |-> pos, cursor |-> pos + m]
             ELSE FindHeader(r, pos + Len(text), min, name)

RECURSIVE FindNextHeader(_, _, _)
FindNextHeader(r, pos, max) ==
    IF pos = Len(r) THEN [found |-> FALSE, start |-> 0, cursor |-> pos]
    ELSE LET text == RawLine(r, pos)
             m == NextHeaderPatternMatch(text, max)
         IN  IF m >= 0
             THEN [found |-> TRUE, start |-> pos, cursor |-> pos + m]
             ELSE FindNextHeader(r, pos + Len(text), max)

\* section_header.split(' ').next().unwrap().len()
RECURSIVE HeaderWeight(_)
HeaderWeight(header) ==
    IF header = << >> \/ Head(header) = " " THEN 0
    ELSE 1 + HeaderWeight(Tail(header))

\* Section::find_subsection followed by Section::new in Section::subsection.
\* The search starts at offset 0 of the rope and runs over all of it.
FindSubsection(r, s, name) ==
    LET hit == FindHeader(r, 0, MinMarkers(s.weight), name)
    IN  IF ~hit.found THEN None
        ELSE IF hit.cursor = Len(r) THEN None
        ELSE LET bodyBegin == hit.cursor + 1
                 weight == HeaderWeight(SubSeq(r, hit.start + 1, bodyBegin))
                 nxt == FindNextHeader(r, bodyBegin, weight)
                 bodyEnd == IF nxt.found THEN nxt.start ELSE Len(r)
             IN  Some(Section(weight, bodyBegin, bodyEnd))

\* Note::section
NoteSectionOf(r, name) ==
    IF name = None THEN Some(RootSection(r))
    ELSE FindSubsection(r, RootSection(r), name[1])

\* Mutant of AppendTo: the text is inserted and interval.end is left as it
\* was.
AppendToKeepsEnd(r, s, d) ==
    [rope |-> Edit(r, s.end, s.end, ToMarkdown(d)), section |-> s]

\* Section::append: the rope and the interval after the call.
AppendTo(r, s, d) ==
    LET diff == ToMarkdown(d)
    IN  [rope |-> Edit(r, s.end, s.end, diff),
         section |-> Section(s.weight, s.start, s.end + Len(diff))]

\* The cursor of trim_end after its loop: it steps back from interval.end
\* while the character it stepped over is whitespace, and stops at offset 0.
RECURSIVE ScanBack(_, _)
ScanBack(r, pos) ==
    IF pos = 0 THEN 0
    ELSE IF ~IsWhitespace(r[pos]) THEN pos - 1
    ELSE ScanBack(r, pos - 1)

\* cursor.next_codepoint(): one step forward unless at the end of the rope.
NextCodepoint(r, pos) == IF pos < Len(r) THEN pos + 1 ELSE pos

\* Mutant of TrimKeepEnd: the range removed runs to interval.end.
TrimKeepNothing(s) == s.end

\* The end of the range trim_end removes: interval.end - 1, kept as "the
\* last \n of a section".
TrimKeepEnd(s) == s.end - 1

\* Section::trim_end: whether it fails, and the rope and the interval after
\* the call.  With interval.end = 0 the subtraction interval.end - 1 leaves
\* usize: a build with overflow checks panics there, and one without them
\* goes on with an offset far past the end of the rope, which the rope cannot
\* resolve; neither completes the call.
TrimEndOf(r, s) ==
    IF s.end = 0 THEN [panic |-> TRUE, rope |-> r, section |-> s]
    ELSE LET from == NextCodepoint(r, ScanBack(r, s.end))
             to == TrimKeepEnd(s)
         IN  [panic |-> FALSE,
              rope |-> Edit(r, from, to, << >>),
              section |-> Section(s.weight, s.start, from)]

\* ------------------------------------------------------------------ state

VARIABLES
    rope,       \* the note's text
    section,    \* the Section the caller holds: None or Some(section)
    last,       \* the last call: what was asked, the answer, the state before
    edits,      \* the edits made through Section values
    calls       \* the calls made through the Note interface

vars == << rope, section, last, edits, calls >>

Call(op, name, data, result, value) ==
    [op |-> op, name |-> name, data |-> data, result |-> result,
     value |-> value,
     pre |-> [rope |-> rope, section |-> section, op |-> last.op]]

Init ==
    /\ rope \in Docs
    /\ section = None
    /\ last = [op |-> "open", name |-> None, data |-> None, result |-> "ok",
               value |-> None,
               pre |-> [rope |-> << >>, section |-> None, op |-> "none"]]
    /\ edits = 0
    /\ calls = 0

\* A panic ends the program.
Running == last.result # "panic"

\* ------------------------------------------------- the Section interface

\* Note::section(name): the root, or a section of the root, is handed out.
NoteSection(name) ==
    /\ Running
    /\ section = None
    /\ LET found == NoteSectionOf(rope, name)
       IN  /\ section' = found
           /\ last' = Call("section", name, None,
                           IF found = None THEN "absent" ELSE "ok", None)
    /\ UNCHANGED << rope, edits, calls >>

\* Section::subsection(name) on the section held; an absent answer leaves the
\* caller with the section it had.
Subsection(name) ==
    /\ Running
    /\ section # None
    /\ LET found == FindSubsection(rope, section[1], name)
       IN  /\ section' = IF found = None THEN section ELSE found
           /\ last' = Call("subsection", Some(name), None,
                           IF found = None THEN "absent" ELSE "ok", None)
    /\ UNCHANGED << rope, edits, calls >>

\* Section::append(data) on the section held.
SectionAppend(d) ==
    /\ Running
    /\ section # None
    /\ edits < MaxEdits
    /\ LET a == AppendTo(rope, section[1], d)
       IN  /\ rope' = a.rope
           /\ section' = Some(a.section)
    /\ last' = Call("append", None, Some(d), "ok", None)
    /\ edits' = edits + 1
    /\ UNCHANGED calls

\* Section::trim_end() on the section held.
SectionTrimEnd ==
    /\ Running
    /\ section # None
    /\ edits < MaxEdits
    /\ LET t == TrimEndOf(rope, section[1])
       IN  /\ rope' = t.rope
           /\ section' = Some(t.section)
           /\ last' = Call("trim_end", None, None,
                           IF t.panic THEN "panic" ELSE "ok", None)
    /\ edits' = edits + 1
    /\ UNCHANGED calls

Next ==
    \/ \E name \in OptNames : NoteSection(name)
    \/ \E name \in Names : Subsection(name)
    \/ \E d \in Payloads : SectionAppend(d)
    \/ SectionTrimEnd

Spec == Init /\ [][Next]_vars

\* ---------------------------------------------------- the Note interface

\* What a Note call answers once Note::section has answered found: the error
\* SectionNotFound, or ok.
NoteResult(found) == IF found = None THEN "SectionNotFound" ELSE "ok"

\* Note::body(section); the value is the body, or the name the error carries.
NoteBody(name) ==
    /\ Running
    /\ calls < MaxNoteCalls
    /\ LET found == NoteSectionOf(rope, name)
       IN  last' = Call("Note::body", name, None, NoteResult(found),
                        IF found = None THEN name
                        ELSE Some(Body(rope, found[1])))
    /\ calls' = calls + 1
    /\ UNCHANGED << rope, section, edits >>

\* Note::append(data, section); the Section it made is dropped at its end.
NoteAppend(d, name) ==
    /\ Running
    /\ calls < MaxNoteCalls
    /\ LET found == NoteSectionOf(rope, name)
       IN  /\ rope' = IF found = None THEN rope
                      ELSE AppendTo(rope, found[1], d).rope
           /\ last' = Call("Note::append", name, Some(d), NoteResult(found),
                           IF found = None THEN name ELSE None)
    /\ calls' = calls + 1
    /\ UNCHANGED << section, edits >>

\* Note::trim_end(section)
NoteTrimEnd(name) ==
    /\ Running
    /\ calls < MaxNoteCalls
    /\ LET found == NoteSectionOf(rope, name)
       IN  IF found = None
           THEN /\ rope' = rope
                /\ last' = Call("Note::trim_end", name, None,
                                NoteResult(found), name)
           ELSE LET t == TrimEndOf(rope, found[1])
                IN  /\ rope' = t.rope
                    /\ last' = Call("Note::trim_end", name, None,
                                    IF t.panic THEN "panic"
                                    ELSE NoteResult(found), None)
    /\ calls' = calls + 1
    /\ UNCHANGED << section, edits >>

NoteNext ==
    \/ \E name \in OptNames : NoteBody(name)
    \/ \E d \in Payloads, name \in OptNames : NoteAppend(d, name)
    \/ \E name \in OptNames : NoteTrimEnd(name)

NoteSpec == Init /\ [][NoteNext]_vars

\* ------------------------------------------- the vocabulary of the claims
\* What the specification calls a heading line, a heading's text and a valid
\* range, stated on offsets of the text and not by the search of the code.

\* The least element of a set of offsets.
Min(S) == CHOOSE x \in S : \A y \in S : x <= y

\* Offset i is where a line of r starts.
LineStartsAt(r, i) == i = 0 \/ r[i] = LF

\* The number of "#" that follow offset i.
MarkersAt(r, i) ==
    CHOOSE k \in 0..(Len(r) - i) :
        /\ \A j \in 1..k : r[i + j] = "#"
        /\ i + k = Len(r) \/ r[i + k + 1] # "#"

\* The offset where the line holding offset i stops: that of its line break,
\* or the length of the text.
LineStop(r, i) ==
    CHOOSE e \in i..Len(r) :
        /\ e = Len(r) \/ r[e + 1] = LF
        /\ \A j \in (i + 1)..e : r[j] # LF

\* A heading line starts at offset i: markers, one space, the text.
HeadingLineAt(r, i) ==
    /\ i < Len(r)
    /\ LineStartsAt(r, i)
    /\ MarkersAt(r, i) >= 1
    /\ i + MarkersAt(r, i) < Len(r)
    /\ r[i + MarkersAt(r, i) + 1] = " "

HeadingText(r, i) == SubSeq(r, i + MarkersAt(r, i) + 2, LineStop(r, i))

SameText(t, u) ==
    /\ Len(t) = Len(u)
    /\ \A k \in 1..Len(t) : Lower(t[k]) = Lower(u[k])

\* The heading line at offset i has the text name, whatever the case.
HeadingNamed(r, i, name) ==
    HeadingLineAt(r, i) /\ SameText(HeadingText(r, i), name)

\* The offsets of the heading lines named name.
HeadingsNamed(r, name) == { i \in 0..(Len(r) - 1) : HeadingNamed(r, i, name) }

\* The range of s is valid for the text r.
ValidRange(r, s) == s.start <= s.end /\ s.end <= Len(r)

\* The number of whitespace characters a text ends with.
TrailingWhitespace(t) ==
    CHOOSE k \in 0..Len(t) :
        /\ \A j \in (Len(t) - k + 1)..Len(t) : IsWhitespace(t[j])
        /\ k = Len(t) \/ ~IsWhitespace(t[Len(t) - k])

\* The state before the last call.
PreRope == last.pre.rope
PreSection == last.pre.section[1]

\* ------------------------------------------------------------------ claims

\* C1: when H is the first heading line named N, subsection(root, N) is a
\* Section whose level is H's marker count, whose range starts right after
\* H's line break (at the end of the buffer when H is its last line) and ends
\* right before the first later heading line of 1 to level markers, or at the
\* buffer's length.
C1_SubsectionOfRootIsTheFirstHeadingNamed ==
    (last.op = "section" /\ last.name # None /\
     HeadingsNamed(PreRope, last.name[1]) # {}) =>
        LET r == PreRope
            H == Min(HeadingsNamed(r, last.name[1]))
            level == MarkersAt(r, H)
            begin == MinOf(LineStop(r, H) + 1, Len(r))
            closers == { j \in begin..(Len(r) - 1) :
                           HeadingLineAt(r, j) /\ MarkersAt(r, j) <= level }
            end == IF closers = {} THEN Len(r) ELSE Min(closers)
        IN  section = Some(Section(level, begin, end))

\* C2: subsection(P, N) on a parent P whose range is a proper part of the
\* buffer is absent when no heading named N and deeper than P starts inside
\* P's range, and otherwise returns a range contained in P's range.
C2_SubsectionSearchesOnlyTheParentRange ==
    (last.op = "subsection" /\ ValidRange(PreRope, PreSection) /\
     (PreSection.start > 0 \/ PreSection.end < Len(PreRope))) =>
        LET r == PreRope
            P == PreSection
            inside == { i \in HeadingsNamed(r, last.name[1]) :
                          /\ P.start <= i /\ i < P.end
                          /\ MarkersAt(r, i) > P.weight }
        IN  /\ inside = {} => last.result = "absent"
            /\ last.result = "ok" =>
                   P.start <= section[1].start /\ section[1].end <= P.end

\* C3: append on a Section with a valid range leaves its body equal to the
\* body before followed by the rendered payload, its end grown by the
\* rendered length, its start unchanged, and the text before the old end and
\* the text after it unchanged.
C3_AppendExtendsTheBody ==
    (last.op = "append" /\ ValidRange(PreRope, PreSection)) =>
        LET r == PreRope
            S == PreSection
            T == section[1]
            text == ToMarkdown(last.data[1])
        IN  /\ Body(rope, T) = Body(r, S) \o text
            /\ T.end = S.end + Len(text)
            /\ T.start = S.start
            /\ SubSeq(rope, 1, S.end) = SubSeq(r, 1, S.end)
            /\ SubSeq(rope, T.end + 1, Len(rope)) = SubSeq(r, S.end + 1, Len(r))

\* An append of a checklist item to a section below the root that has text
\* before it and after it.
C3_Witness ==
    /\ last.op = "append"
    /\ last.data[1].kind = "checklist"
    /\ ValidRange(PreRope, PreSection)
    /\ PreSection.start > 0
    /\ PreSection.start < PreSection.end
    /\ PreSection.end < Len(PreRope)

\* C4: trim_end on a body that is content ending in a non-whitespace
\* character followed by two or more whitespace characters leaves the body
\* equal to the content, and leaves in the buffer the last of the whitespace
\* characters between the content and what followed the section.
C4_TrimEndKeepsTheLastWhitespace ==
    (last.op = "trim_end" /\ ValidRange(PreRope, PreSection)) =>
        LET r == PreRope
            S == PreSection
            b == Body(r, S)
            k == TrailingWhitespace(b)
            content == SubSeq(b, 1, Len(b) - k)
        IN  (k >= 2 /\ k < Len(b)) =>
                /\ last.result = "ok"
                /\ Body(rope, section[1]) = content
                /\ section[1].start = S.start
                /\ rope = SubSeq(r, 1, S.start) \o content \o << r[S.end] >>
                            \o SubSeq(r, S.end + 1, Len(r))

\* A trim_end of a section below the root whose body ends in content and two
\* or more whitespace characters, with a heading after it.
C4_Witness ==
    /\ last.op = "trim_end"
    /\ ValidRange(PreRope, PreSection)
    /\ PreSection.start > 0
    /\ PreSection.end < Len(PreRope)
    /\ LET b == Body(PreRope, PreSection)
       IN  TrailingWhitespace(b) >= 2 /\ TrailingWhitespace(b) < Len(b)

\* C5: a second trim_end in a row on the same Section does not fail and
\* leaves the buffer and the section's range as the first left them.
C5_TrimEndTwiceIsTrimEndOnce ==
    (last.op = "trim_end" /\ last.pre.op = "trim_end") =>
        /\ last.result = "ok"
        /\ rope = PreRope
        /\ section = last.pre.section

\* C6: trim_end on a body that ends in a non-whitespace character, or in one
\* line break after a non-whitespace character, does not fail and leaves the
\* buffer unchanged.
C6_TrimEndWithNothingToTrimIsNoOp ==
    (last.op = "trim_end" /\ ValidRange(PreRope, PreSection)) =>
        LET b == Body(PreRope, PreSection)
            n == Len(b)
        IN  (n >= 1 /\ (\/ ~IsWhitespace(b[n])
                        \/ n >= 2 /\ b[n] = LF /\ ~IsWhitespace(b[n - 1]))) =>
                last.result = "ok" /\ rope = PreRope

\* C7: after any appends and trim_ends through the Section held, no call has
\* failed and start <= end <= the buffer's length.
C7_RangeStaysWellFormed ==
    section # None =>
        last.result # "panic" /\ ValidRange(rope, section[1])

\* C8: a Section returned by subsection(P, N) is that of a heading line named
\* N whose marker count is its level and is greater than P's level.
C8_ChildIsDeeperThanParent ==
    (last.op \in {"section", "subsection"} /\ last.name # None /\
     last.result = "ok") =>
        LET r == PreRope
            parentLevel == IF last.op = "section" THEN 0 ELSE PreSection.weight
            T == section[1]
        IN  /\ T.weight > parentLevel
            /\ \E H \in HeadingsNamed(r, last.name[1]) :
                   /\ LineStop(r, H) + 1 = T.start
                   /\ MarkersAt(r, H) = T.weight

\* A subsection found under a parent below the root, in a text that holds a
\* heading of the same name no deeper than the parent.
C8_Witness ==
    /\ last.op = "subsection"
    /\ last.result = "ok"
    /\ PreSection.weight >= 1
    /\ \E i \in HeadingsNamed(PreRope, last.name[1]) :
           MarkersAt(PreRope, i) <= PreSection.weight

\* C9: Note::body, Note::append and Note::trim_end with a name that is the
\* text of no heading answer SectionNotFound carrying the name and leave the
\* buffer unchanged; without a name they never answer SectionNotFound.
C9_AbsentNameIsSectionNotFound ==
    (last.op \in {"Note::body", "Note::append", "Note::trim_end"}) =>
        /\ last.name = None => last.result # "SectionNotFound"
        /\ (last.name # None /\ HeadingsNamed(PreRope, last.name[1]) = {}) =>
               /\ last.result = "SectionNotFound"
               /\ last.value = last.name
               /\ rope = PreRope

\* A Note::append with a name that no heading of a text with headings has.
C9_Witness ==
    /\ last.op = "Note::append"
    /\ last.name # None
    /\ HeadingsNamed(PreRope, last.name[1]) = {}
    /\ \E i \in 0..(Len(PreRope) - 1) : HeadingLineAt(PreRope, i)
    /\ last.result = "SectionNotFound"

\* C10: trim_end leaves the text before the section's start and the text
\* from its old end on as they were.
C10_TrimEndChangesNothingOutsideTheRange ==
    (last.op = "trim_end" /\ last.result = "ok" /\
     ValidRange(PreRope, PreSection)) =>
        LET r == PreRope
            S == PreSection
            after == Len(r) - S.end
        IN  /\ SubSeq(rope, 1, S.start) = SubSeq(r, 1, S.start)
            /\ SubSeq(rope, Len(rope) - after + 1, Len(rope))
                   = SubSeq(r, S.end + 1, Len(r))

====
